---------------------------- MODULE Spec2Model ----------------------------
(* A model of src/src/evaluate.py: the band extraction, the two normalized *)
(* difference indices, the fused health score and the threshold summary.   *)
(*                                                                         *)
(* Numbers.  A float64 value is modelled exactly (no rounding) as a        *)
(* quotient n/d of two polynomials in the symbol eps = 1e-10 with integer  *)
(* coefficients; a polynomial is the sequence of its coefficients, lowest  *)
(* degree first.  Every coefficient of the model is below 2^31 < 1/eps, so *)
(* the sign of a polynomial at eps = 1e-10 is the sign of its first        *)
(* non-zero coefficient and two polynomials agree at eps only if they are  *)
(* the same polynomial.  d = 0 stands for IEEE's non-finite values: n # 0  *)
(* is +Inf or -Inf, n = 0 is NaN (numpy divides by zero without raising).  *)
(* A uint16 value is an integer in 0 .. 2^16 - 1 and its arithmetic wraps. *)
EXTENDS Integers, Sequences, FiniteSets, TLC

VARIABLES data, pc, ndvi, ndwi, health_map, shown, healthy_area, stressed_area, err

vars == <<data, pc, ndvi, ndwi, health_map, shown, healthy_area, stressed_area, err>>

-----------------------------------------------------------------------------
(* Polynomials in eps *)

Abs(i) ==
  IF i < 0 THEN -i ELSE i

Sgn(i) ==
  IF i < 0 THEN -1 ELSE IF i > 0 THEN 1 ELSE 0

MaxOf(i, j) ==
  IF i < j THEN j ELSE i

RECURSIVE GCD(_, _)
GCD(i, j) ==
  IF j = 0 THEN Abs(i) ELSE GCD(j, i % Abs(j))

Coef(p, i) ==
  IF i \in 1..Len(p) THEN p[i] ELSE 0

PAdd(p, q) ==
  [i \in 1..MaxOf(Len(p), Len(q)) |-> Coef(p, i) + Coef(q, i)]

PScale(k, p) ==
  [i \in 1..Len(p) |-> k * p[i]]

PSub(p, q) ==
  PAdd(p, PScale(-1, q))

RECURSIVE Conv(_, _, _, _)
Conv(p, q, k, i) ==
  IF i > Len(p) THEN 0
  ELSE (IF p[i] = 0 \/ Coef(q, k + 1 - i) = 0 THEN 0 ELSE p[i] * Coef(q, k + 1 - i))
       + Conv(p, q, k, i + 1)

PMul(p, q) ==
  [k \in 1..(Len(p) + Len(q) - 1) |-> Conv(p, q, k, 1)]

RECURSIVE PSignFrom(_, _)
PSignFrom(p, i) ==
  IF i > Len(p) THEN 0
  ELSE IF p[i] # 0 THEN Sgn(p[i])
  ELSE PSignFrom(p, i + 1)

PSign(p) ==
  PSignFrom(p, 1)

RECURSIVE PContent(_, _)
PContent(p, i) ==
  IF i > Len(p) THEN 0 ELSE GCD(p[i], PContent(p, i + 1))

RECURSIVE PDegLen(_)
PDegLen(p) ==
  IF Len(p) > 1 /\ p[Len(p)] = 0 THEN PDegLen(SubSeq(p, 1, Len(p) - 1)) ELSE p

PQuot(p, g) ==
  PDegLen([i \in 1..Len(p) |-> p[i] \div g])

-----------------------------------------------------------------------------
(* float64 values *)

Norm(n, d) ==
  LET s == IF PSign(d) < 0 THEN -1 ELSE 1
      g == GCD(PContent(n, 1), PContent(d, 1))
      h == IF g = 0 THEN 1 ELSE g
  IN  IF PSign(d) = 0
        THEN [n |-> <<PSign(n)>>, d |-> <<0>>]
        ELSE [n |-> PQuot(PScale(s, n), h), d |-> PQuot(PScale(s, d), h)]

Rat(i, j) ==
  Norm(<<i>>, <<j>>)

Eps ==
  [n |-> <<0, 1>>, d |-> <<1>>]

IsNaN(x) ==
  PSign(x.d) = 0 /\ PSign(x.n) = 0

IsFinite(x) ==
  PSign(x.d) # 0

FAdd(x, y) ==
  IF ~IsFinite(x) /\ ~IsFinite(y) /\ x = y THEN x
  ELSE Norm(PAdd(PMul(x.n, y.d), PMul(y.n, x.d)), PMul(x.d, y.d))

FNeg(x) ==
  [n |-> PScale(-1, x.n), d |-> x.d]

FSub(x, y) ==
  FAdd(x, FNeg(y))

FMul(x, y) ==
  Norm(PMul(x.n, y.n), PMul(x.d, y.d))

FDiv(x, y) ==
  Norm(PMul(x.n, y.d), PMul(x.d, y.n))

FCmp(x, y) ==
  IF x = y THEN 0
  ELSE IF ~IsFinite(x) /\ ~IsFinite(y) THEN Sgn(PSign(x.n) - PSign(y.n))
  ELSE PSign(PSub(PMul(x.n, y.d), PMul(y.n, x.d)))

FLess(x, y) ==
  ~IsNaN(x) /\ ~IsNaN(y) /\ FCmp(x, y) < 0

FEq(x, y) ==
  ~IsNaN(x) /\ ~IsNaN(y) /\ FCmp(x, y) = 0

FLeq(x, y) ==
  FLess(x, y) \/ FEq(x, y)

(* A clamp that forgets the lower limit. *)
FClipUpperOnly(x, lo, hi) ==
  IF IsNaN(x) THEN x
  ELSE IF FLess(hi, x) THEN hi
  ELSE x

FClip(x, lo, hi) ==
  IF IsNaN(x) THEN x
  ELSE IF FLess(x, lo) THEN lo
  ELSE IF FLess(hi, x) THEN hi
  ELSE x

-----------------------------------------------------------------------------
(* numpy arrays: a dtype, a shape and one value per index.  A float64      *)
(* array holds the values above; a uint16 array holds them with d = 1 and  *)
(* n in 0 .. 2^16 - 1.  A Python scalar is the array of shape <<>>.        *)

UInt16Modulus ==
  65536

RECURSIVE SeqMax(_)
SeqMax(s) ==
  IF Len(s) = 0 THEN 0 ELSE MaxOf(Head(s), SeqMax(Tail(s)))

Indices(shape) ==
  {i \in [1..Len(shape) -> 1..SeqMax(shape)] : \A k \in 1..Len(shape) : i[k] <= shape[k]}

Size(shape) ==
  Cardinality(Indices(shape))

(* The dimension an operand of shape s contributes to position k of a     *)
(* result of rank r: shapes are aligned on their last dimension and a     *)
(* missing leading dimension counts as 1.                                  *)
DimAt(s, r, k) ==
  IF k > r - Len(s) THEN s[k - (r - Len(s))] ELSE 1

(* A shape rule that accepts identical shapes only. *)
SameShape(s, t) ==
  s = t

Broadcastable(s, t) ==
  LET r == MaxOf(Len(s), Len(t))
  IN  \A k \in 1..r : DimAt(s, r, k) = DimAt(t, r, k) \/ DimAt(s, r, k) = 1 \/ DimAt(t, r, k) = 1

BroadcastShape(s, t) ==
  LET r == MaxOf(Len(s), Len(t))
  IN  [k \in 1..r |-> IF DimAt(s, r, k) = 1 THEN DimAt(t, r, k) ELSE DimAt(s, r, k)]

(* The element of a that takes part at index i of the broadcast result. *)
At(a, i) ==
  LET off == Len(i) - Len(a.shape)
  IN  a.v[[k \in 1..Len(a.shape) |-> IF a.shape[k] = 1 THEN 1 ELSE i[k + off]]]

Wrap(x) ==
  Rat(x.n[1] % UInt16Modulus, 1)

(* The result type of an arithmetic operator: integer operands keep the   *)
(* integer type (and wrap), anything else is float64.                      *)
ResultType(a, b) ==
  IF a.dtype = "uint16" /\ b.dtype = "uint16" THEN "uint16" ELSE "float64"

Cast(t, x) ==
  IF t = "uint16" THEN Wrap(x) ELSE x

Subtract(a, b) ==
  LET t == ResultType(a, b)
      s == BroadcastShape(a.shape, b.shape)
  IN  [dtype |-> t, shape |-> s, v |-> [i \in Indices(s) |-> Cast(t, FSub(At(a, i), At(b, i)))]]

Add(a, b) ==
  LET t == ResultType(a, b)
      s == BroadcastShape(a.shape, b.shape)
  IN  [dtype |-> t, shape |-> s, v |-> [i \in Indices(s) |-> Cast(t, FAdd(At(a, i), At(b, i)))]]

Multiply(a, b) ==
  LET t == ResultType(a, b)
      s == BroadcastShape(a.shape, b.shape)
  IN  [dtype |-> t, shape |-> s, v |-> [i \in Indices(s) |-> Cast(t, FMul(At(a, i), At(b, i)))]]

(* True division always yields float64. *)
Divide(a, b) ==
  LET s == BroadcastShape(a.shape, b.shape)
  IN  [dtype |-> "float64", shape |-> s, v |-> [i \in Indices(s) |-> FDiv(At(a, i), At(b, i))]]

(* A Python literal: an int adopts the dtype of the array it meets, a     *)
(* float makes the result float64.                                         *)
PyFloat(x) ==
  [dtype |-> "float64", shape |-> <<>>, v |-> [i \in Indices(<<>>) |-> x]]

PyInt(k, like) ==
  [dtype |-> like.dtype, shape |-> <<>>, v |-> [i \in Indices(<<>>) |-> Rat(k, 1)]]

(* np.clip(a, lo, hi) without out=: a new array of a's dtype and shape. *)
Clip(a, lo, hi) ==
  [dtype |-> a.dtype, shape |-> a.shape,
   v |-> [i \in Indices(a.shape) |-> FClip(a.v[i], Rat(lo, 1), Rat(hi, 1))]]

(* np.mean of a boolean array with the given number of True elements. *)
Mean(count, a) ==
  FDiv(Rat(count, 1), Rat(Size(a.shape), 1))

-----------------------------------------------------------------------------
(* Calls: a function returns a value or raises. *)

Return(x) ==
  [ok |-> TRUE, val |-> x]

Raise(type, where, index) ==
  [ok |-> FALSE, exc |-> [type |-> type, where |-> where, index |-> index]]

None ==
  [dtype |-> "none", shape |-> <<>>, v |-> <<>>]

NoValue ==
  [n |-> <<>>, d |-> <<>>]

NoError ==
  [type |-> "none", where |-> "none", index |-> -1]

-----------------------------------------------------------------------------
(* The hyperspectral cube and the functions of evaluate.py.  The cube is  *)
(* the array loadmat returns (line 61), with the element type stored in  *)
(* the file: float64 reflectances, or the unsigned 16-bit counts of the  *)
(* Indian Pines scene the program names.  Of its bands only those of the *)
(* band table are read by the index functions and kept in the model.     *)

RedBand ==
  50

NirBand ==
  90

SwirBand ==
  150

BandTable ==
  {RedBand, NirBand, SwirBand}

Epsilon ==
  PyFloat(Eps)

Rows(cube) ==
  cube.shape[1]

Cols(cube) ==
  cube.shape[2]

Bands(cube) ==
  cube.shape[3]

(* An extraction that substitutes a raster of zeros for a missing band. *)
SliceWithFallback(cube, k, where) ==
  LET n == Bands(cube)
      j == IF k < 0 THEN k + n ELSE k
      plane == <<Rows(cube), Cols(cube)>>
  IN  IF k >= n \/ k < -n
        THEN Return([dtype |-> cube.dtype, shape |-> plane, v |-> [i \in Indices(plane) |-> Rat(0, 1)]])
        ELSE Return([dtype |-> cube.dtype, shape |-> plane, v |-> cube.band[j]])

(* data[:, :, k]: an index outside -n .. n-1 raises; a negative one       *)
(* counts from the end; the slice has the cube's dtype.                    *)
Slice(cube, k, where) ==
  LET n == Bands(cube)
      j == IF k < 0 THEN k + n ELSE k
  IN  IF k >= n \/ k < -n
        THEN Raise("IndexError", where, k)
        ELSE Return([dtype |-> cube.dtype, shape |-> <<Rows(cube), Cols(cube)>>, v |-> cube.band[j]])

(* The textbook ratio, without the guard in the denominator. *)
NormalizedDifferenceUnguarded(a, b) ==
  Divide(Subtract(a, b), Add(a, b))

NormalizedDifference(a, b) ==
  Divide(Subtract(a, b), Add(Add(a, b), Epsilon))

calculate_ndvi(cube) ==
  LET red_band == Slice(cube, RedBand, "calculate_ndvi")
      nir_band == Slice(cube, NirBand, "calculate_ndvi")
  IN  IF ~red_band.ok THEN red_band
      ELSE IF ~nir_band.ok THEN nir_band
      ELSE Return(NormalizedDifference(nir_band.val, red_band.val))

calculate_ndwi(cube) ==
  LET nir_band == Slice(cube, NirBand, "calculate_ndwi")
      swir_band == Slice(cube, SwirBand, "calculate_ndwi")
  IN  IF ~nir_band.ok THEN nir_band
      ELSE IF ~swir_band.ok THEN swir_band
      ELSE Return(NormalizedDifference(nir_band.val, swir_band.val))

(* np.clip(..., out=a): the argument array is overwritten. *)
ClipArgumentInPlace(a) ==
  Clip(a, 0, 1)

(* np.clip allocates its result, so the argument array is left as it was; *)
(* this is the array that ndwi names after the call.                       *)
ClipArgument(a) ==
  a

(* A fusion that uses the moisture index as it is, unclamped. *)
create_health_map_unclipped(vi, wi) ==
  LET penalty == Subtract(PyInt(1, wi), wi)
  IN  IF ~Broadcastable(vi.shape, penalty.shape)
        THEN Raise("ValueError", "create_health_map", -1)
        ELSE Return(Multiply(vi, penalty))

create_health_map(vi, wi) ==
  LET clipped == Clip(wi, 0, 1)
      penalty == Subtract(PyInt(1, clipped), clipped)
  IN  IF ~Broadcastable(vi.shape, penalty.shape)
        THEN Raise("ValueError", "create_health_map", -1)
        ELSE Return(Multiply(vi, penalty))

HealthyThreshold ==
  Rat(6, 10)

StressedThreshold ==
  Rat(3, 10)

(* An inclusive healthy threshold. *)
IsHealthyInclusive(x) ==
  FLeq(HealthyThreshold, x)

IsHealthy(x) ==
  FLess(HealthyThreshold, x)

(* A stressed test with the comparison reversed. *)
IsStressedReversed(x) ==
  FLess(StressedThreshold, x)

IsStressed(x) ==
  FLess(x, StressedThreshold)

Percent(x) ==
  FMul(x, Rat(100, 1))

healthy_area_of(h) ==
  Percent(Mean(Cardinality({i \in Indices(h.shape) : IsHealthy(h.v[i])}), h))

stressed_area_of(h) ==
  Percent(Mean(Cardinality({i \in Indices(h.shape) : IsStressed(h.v[i])}), h))

-----------------------------------------------------------------------------
(* main(): the steps of the pipeline, lines 64-107 *)

CalcNdvi ==
  /\ pc = "start"
  /\ LET r == calculate_ndvi(data)
     IN  IF r.ok
           THEN /\ ndvi' = r.val
                /\ pc' = "ndvi"
                /\ err' = err
           ELSE /\ ndvi' = ndvi
                /\ pc' = "failed"
                /\ err' = r.exc
  /\ UNCHANGED <<data, ndwi, health_map, shown, healthy_area, stressed_area>>

CalcNdwi ==
  /\ pc = "ndvi"
  /\ LET r == calculate_ndwi(data)
     IN  IF r.ok
           THEN /\ ndwi' = r.val
                /\ pc' = "ndwi"
                /\ err' = err
           ELSE /\ ndwi' = ndwi
                /\ pc' = "failed"
                /\ err' = r.exc
  /\ UNCHANGED <<data, ndvi, health_map, shown, healthy_area, stressed_area>>

Fuse ==
  /\ pc = "ndwi"
  /\ LET r == create_health_map(ndvi, ndwi)
     IN  IF r.ok
           THEN /\ health_map' = r.val
                /\ pc' = "fused"
                /\ err' = err
           ELSE /\ health_map' = health_map
                /\ pc' = "failed"
                /\ err' = r.exc
  /\ ndwi' = ClipArgument(ndwi)
  /\ UNCHANGED <<data, ndvi, shown, healthy_area, stressed_area>>

(* The three index panels handed to imshow (lines 82, 88, 94). *)
Render ==
  /\ pc = "fused"
  /\ shown' = [ndvi |-> ndvi, ndwi |-> ndwi, health_map |-> health_map]
  /\ pc' = "rendered"
  /\ UNCHANGED <<data, ndvi, ndwi, health_map, healthy_area, stressed_area, err>>

Summarize ==
  /\ pc = "rendered"
  /\ healthy_area' = healthy_area_of(health_map)
  /\ stressed_area' = stressed_area_of(health_map)
  /\ pc' = "done"
  /\ UNCHANGED <<data, ndvi, ndwi, health_map, shown, err>>

-----------------------------------------------------------------------------
(* Inputs *)

MaxSample ==
  2

FloatTenths ==
  {-8, 1, 2, 8}

Samples(dtype) ==
  IF dtype = "uint16" THEN {Rat(u, 1) : u \in 0..MaxSample}
  ELSE {Rat(t, 10) : t \in FloatTenths}

CubeDtypes ==
  {"float64", "uint16"}

CubePlanes ==
  {<<1, 1>>, <<1, 2>>}

BandCounts ==
  {50, 51, 90, 91, 150, 151, 200}

BandValues(t, s, n) ==
  [{k \in BandTable : k < n} -> [Indices(s) -> Samples(t)]]

Init ==
  /\ \E t \in CubeDtypes, s \in CubePlanes, n \in BandCounts :
       \E b \in BandValues(t, s, n) :
         data = [dtype |-> t, shape |-> <<s[1], s[2], n>>, band |-> b]
  /\ pc = "start"
  /\ ndvi = None
  /\ ndwi = None
  /\ health_map = None
  /\ shown = [ndvi |-> None, ndwi |-> None, health_map |-> None]
  /\ healthy_area = NoValue
  /\ stressed_area = NoValue
  /\ err = NoError

Next ==
  \/ CalcNdvi
  \/ CalcNdwi
  \/ Fuse
  \/ Render
  \/ Summarize

Spec ==
  Init /\ [][Next]_vars

-----------------------------------------------------------------------------
(* create_health_map and the summary applied to arbitrary index rasters:  *)
(* lines 68-107 of main() entered with any two float64 arrays.             *)

NdviTenths ==
  {-5, 6, 10}

NdwiTenths ==
  {-20, 5, 20}

RasterShapes ==
  {<<>>, <<1, 2>>, <<2, 1>>, <<2, 2>>, <<3, 1>>}

NoCube ==
  [dtype |-> "none", shape |-> <<0, 0, 0>>, band |-> <<>>]

InitFusion ==
  /\ data = NoCube
  /\ pc = "ndwi"
  /\ \E s \in RasterShapes : \E f \in [Indices(s) -> {Rat(t, 10) : t \in NdviTenths}] :
       ndvi = [dtype |-> "float64", shape |-> s, v |-> f]
  /\ \E s \in RasterShapes : \E f \in [Indices(s) -> {Rat(t, 10) : t \in NdwiTenths}] :
       ndwi = [dtype |-> "float64", shape |-> s, v |-> f]
  /\ health_map = None
  /\ shown = [ndvi |-> None, ndwi |-> None, health_map |-> None]
  /\ healthy_area = NoValue
  /\ stressed_area = NoValue
  /\ err = NoError

NextFusion ==
  \/ Fuse
  \/ Render
  \/ Summarize

SpecFusion ==
  InitFusion /\ [][NextFusion]_vars

-----------------------------------------------------------------------------
(* Properties *)

Zero ==
  Rat(0, 1)

One ==
  Rat(1, 1)

Hundred ==
  Rat(100, 1)

FAbs(x) ==
  IF FLess(x, Zero) THEN FNeg(x) ELSE x

Plane ==
  Indices(<<Rows(data), Cols(data)>>)

B(k, i) ==
  data.band[k][i]

HasNdvi ==
  pc \in {"ndvi", "ndwi", "fused", "rendered", "done"} \/ (pc = "failed" /\ ndvi # None)

HasNdwi ==
  pc \in {"ndwi", "fused", "rendered", "done"}

HasHealth ==
  pc \in {"fused", "rendered", "done"}

(* The normalized difference of two real numbers, (a - b) / (a + b + eps). *)
RealIndex(a, b) ==
  FDiv(FSub(a, b), FAdd(FAdd(a, b), Eps))

(* C1: for every cube with at least 151 bands and every pixel, the       *)
(* vegetation index is (B90 - B50) / (B90 + B50 + eps) and the moisture  *)
(* index is (B90 - B150) / (B90 + B150 + eps), unclamped.                *)
C1_IndexFormulas ==
  Bands(data) >= 151 =>
    /\ HasNdvi => \A i \in Plane : FEq(ndvi.v[i], RealIndex(B(90, i), B(50, i)))
    /\ HasNdwi => \A i \in Plane : FEq(ndwi.v[i], RealIndex(B(90, i), B(150, i)))

(* C2: on same-shape rasters the health score is ndvi * (1 - m) with m   *)
(* the moisture index clamped to [0, 1]: ndvi where ndwi <= 0, 0 where   *)
(* ndwi >= 1, ndvi * (1 - ndwi) in between; the sign of ndvi is never    *)
(* inverted and its magnitude never enlarged.                            *)
C2_FusionFormula ==
  (HasHealth /\ ndvi.shape = ndwi.shape) =>
    /\ health_map.shape = ndvi.shape
    /\ \A i \in Indices(ndvi.shape) :
         LET v == ndvi.v[i]
             w == ndwi.v[i]
             h == health_map.v[i]
         IN  /\ FLeq(w, Zero) => FEq(h, v)
             /\ FLeq(One, w) => FEq(h, Zero)
             /\ (FLess(Zero, w) /\ FLess(w, One)) => FEq(h, FMul(v, FSub(One, w)))
             /\ FLeq(FAbs(h), FAbs(v))
             /\ ~(FLess(Zero, v) /\ FLess(h, Zero))
             /\ ~(FLess(v, Zero) /\ FLess(Zero, h))

C2_Witness ==
  /\ HasHealth
  /\ ndvi.shape = <<2, 2>>
  /\ ndwi.shape = <<2, 2>>
  /\ \E i \in Indices(ndvi.shape) : FLess(ndwi.v[i], Zero) /\ FLess(ndvi.v[i], Zero)
  /\ \E i \in Indices(ndvi.shape) : FLess(One, ndwi.v[i]) /\ FLess(Zero, ndvi.v[i])
  /\ \E i \in Indices(ndvi.shape) : FLess(Zero, ndwi.v[i]) /\ FLess(ndwi.v[i], One)

CountAtLeastHealthy(a) ==
  Cardinality({i \in Indices(a.shape) : FLeq(Rat(6, 10), a.v[i])})

CountAboveHealthy(a) ==
  Cardinality({i \in Indices(a.shape) : FLess(Rat(6, 10), a.v[i])})

CountBelowStressed(a) ==
  Cardinality({i \in Indices(a.shape) : FLess(a.v[i], Rat(3, 10))})

PercentOf(count, a) ==
  FDiv(Rat(100 * count, 1), Rat(Size(a.shape), 1))

(* C3 (as stated): a pixel is healthy exactly when its score is >= 0.6   *)
(* and stressed exactly when it is < 0.3, each reported as 100 * count / *)
(* total; a pixel at exactly 0.6 counts as healthy.                      *)
C3_ThresholdsAsStated ==
  pc = "done" =>
    /\ FEq(healthy_area, PercentOf(CountAtLeastHealthy(health_map), health_map))
    /\ FEq(stressed_area, PercentOf(CountBelowStressed(health_map), health_map))

(* C3 (amended): a pixel is healthy exactly when its score is > 0.6 and  *)
(* stressed exactly when it is < 0.3, each reported as 100 * count /     *)
(* total; a pixel at exactly 0.6 is not healthy and one at exactly 0.3   *)
(* is not stressed.                                                      *)
C3_Thresholds ==
  pc = "done" =>
    /\ FEq(healthy_area, PercentOf(CountAboveHealthy(health_map), health_map))
    /\ FEq(stressed_area, PercentOf(CountBelowStressed(health_map), health_map))

C3_Witness ==
  /\ pc = "done"
  /\ \E i \in Indices(health_map.shape) : FEq(health_map.v[i], Rat(6, 10))
  /\ \E i \in Indices(health_map.shape) : FEq(health_map.v[i], Rat(3, 10))
  /\ FEq(healthy_area, Zero)
  /\ FEq(stressed_area, Zero)

(* C4: a cube with fewer than 151 bands stops with an IndexError at the  *)
(* first extraction of a missing band (50, then 90 in calculate_ndvi,    *)
(* then 150 in calculate_ndwi); the index is not wrapped or clamped and  *)
(* no health score, panel or percentage is produced; with 91..150 bands  *)
(* the vegetation index is computed and calculate_ndwi fails.            *)
C4_BandIndexError ==
  /\ Bands(data) < 151 =>
       /\ pc \in {"start", "ndvi", "failed"}
       /\ ndwi = None
       /\ health_map = None
       /\ shown.health_map = None
       /\ healthy_area = NoValue
       /\ stressed_area = NoValue
  /\ (pc = "failed" /\ Bands(data) <= 50) =>
       err = [type |-> "IndexError", where |-> "calculate_ndvi", index |-> 50] /\ ndvi = None
  /\ (pc = "failed" /\ Bands(data) \in 51..90) =>
       err = [type |-> "IndexError", where |-> "calculate_ndvi", index |-> 90] /\ ndvi = None
  /\ (pc = "failed" /\ Bands(data) \in 91..150) =>
       err = [type |-> "IndexError", where |-> "calculate_ndwi", index |-> 150] /\ ndvi # None
  /\ (pc = "ndvi") => Bands(data) > 90
  /\ (pc = "failed") => Bands(data) < 151

C4_Witness ==
  /\ pc = "failed"
  /\ Bands(data) = 150
  /\ ndvi # None
  /\ err.index = 150

Stretchable(s, t) ==
  \/ s = <<>>
  \/ t = <<>>
  \/ /\ Len(s) = 2
     /\ Len(t) = 2
     /\ \A k \in 1..2 : s[k] = t[k] \/ s[k] = 1 \/ t[k] = 1

FusionCalled ==
  pc \in {"fused", "rendered", "done", "failed"} /\ data = NoCube

(* C5 (as stated): create_health_map on rasters of different shapes      *)
(* reports a shape-mismatch error and returns no health score, also when *)
(* one shape could be stretched to the other.                            *)
C5_MismatchAsStated ==
  (FusionCalled /\ ndvi.shape # ndwi.shape) =>
    /\ pc = "failed"
    /\ err.type = "ValueError"
    /\ health_map = None

(* C5 (amended): create_health_map reports a shape-mismatch error and    *)
(* returns no health score exactly when the two shapes cannot be         *)
(* broadcast (an aligned dimension differs and neither side is 1); a     *)
(* 1-row or 1-column raster or a single value against a full raster is   *)
(* stretched and a health score of the stretched shape is returned.      *)
C5_Mismatch ==
  FusionCalled =>
    IF Stretchable(ndvi.shape, ndwi.shape)
      THEN /\ pc # "failed"
           /\ health_map # None
           /\ \A k \in 1..Len(health_map.shape) :
                health_map.shape[k] = MaxOf(DimAt(ndvi.shape, 2, k), DimAt(ndwi.shape, 2, k))
      ELSE /\ pc = "failed"
           /\ err.type = "ValueError"
           /\ health_map = None

C5_Witness ==
  /\ pc = "failed"
  /\ err.type = "ValueError"
  /\ ndvi.shape = <<3, 1>>
  /\ ndwi.shape = <<2, 2>>

SumIsZero(a, b) ==
  FEq(FAdd(a, b), Zero)

AllFinite(a) ==
  \A i \in Indices(a.shape) : IsFinite(a.v[i])

C7_ScoreBelowIndex ==
  (HasHealth /\ ndvi.shape = ndwi.shape) =>
    \A i \in Indices(ndvi.shape) :
      FLeq(Zero, ndvi.v[i]) =>
        FLeq(health_map.v[i], ndvi.v[i]) /\ FLeq(Zero, health_map.v[i])

C7_Witness ==
  /\ HasHealth
  /\ ndvi.shape = ndwi.shape
  /\ \E i \in Indices(ndvi.shape) : FLess(Zero, ndvi.v[i]) /\ FLess(ndwi.v[i], FNeg(One))
  /\ \E i \in Indices(ndvi.shape) : FLess(Zero, ndvi.v[i]) /\ FLess(One, ndwi.v[i])

(* C8: both percentages lie in [0, 100] and their sum is at most 100.    *)
C8_Percentages ==
  pc = "done" =>
    /\ FLeq(Zero, healthy_area) /\ FLeq(healthy_area, Hundred)
    /\ FLeq(Zero, stressed_area) /\ FLeq(stressed_area, Hundred)
    /\ FLeq(FAdd(healthy_area, stressed_area), Hundred)

C8_Witness ==
  /\ pc = "done"
  /\ FEq(healthy_area, Rat(50, 1))
  /\ FEq(stressed_area, Rat(50, 1))

(* C9: the normalized difference is antisymmetric: the index computed    *)
(* from the two bands equals minus the index computed from the same two  *)
(* bands swapped, at every pixel.                                        *)
C9_Antisymmetry ==
  /\ HasNdvi =>
       LET swapped == NormalizedDifference(Slice(data, RedBand, "").val, Slice(data, NirBand, "").val)
       IN  \A i \in Plane : FEq(ndvi.v[i], FNeg(swapped.v[i]))
  /\ HasNdwi =>
       LET swapped == NormalizedDifference(Slice(data, SwirBand, "").val, Slice(data, NirBand, "").val)
       IN  \A i \in Plane : FEq(ndwi.v[i], FNeg(swapped.v[i]))

(* C10: no step changes the cube or a raster computed by an earlier      *)
(* step, and the panels handed to the renderer are the indices as they   *)
(* were computed from the cube before the fusion.                        *)
C10_Frame ==
  [][ /\ data' = data
      /\ (ndvi # None => ndvi' = ndvi)
      /\ (ndwi # None => ndwi' = ndwi)
      /\ (health_map # None => health_map' = health_map)
      /\ (pc = "fused" /\ pc' = "rendered") =>
           /\ shown'.ndvi = calculate_ndvi(data).val
           /\ shown'.ndwi = calculate_ndwi(data).val
           /\ shown'.health_map = health_map
    ]_vars

C10_Witness ==
  /\ pc = "done"
  /\ data.dtype = "float64"
  /\ shown.ndvi = ndvi
  /\ \E i \in Plane : FLess(One, ndwi.v[i])
  /\ \E i \in Plane : FLess(ndwi.v[i], Zero)

=============================================================================
